---- MODULE Spec2Model ----
(***************************************************************************)
(* Badminton ELO queueing: the three scripts of the repository (v1.py,     *)
(* v3.py, v4.py) as one state machine.  `ver` says which script runs; the  *)
(* Player objects live in a heap `objs` (a Match keeps references to its   *)
(* players after they left the queue), `players` is Queue.players and      *)
(* `matches` is Queue.matches.                                             *)
(*                                                                         *)
(* Ratings are Python numbers.  They are kept here in thousandths of a     *)
(* rating point (elo = 1200000 is 1200) with a flag elo_float that says    *)
(* whether the value is a Python float (it prints as 1216.0) or an int.    *)
(***************************************************************************)
EXTENDS Integers, Sequences, FiniteSets, TLC

VARIABLES
    ver,        \* which script runs: 1 (v1.py), 3 (v3.py), 4 (v4.py)
    objs,       \* heap of Player objects, indexed by object identity
    players,    \* Queue.players: object references, in deque / dict order
    matches,    \* Queue.matches
    csv,        \* rows of players.csv
    matchesCsv, \* rows of matches.csv (v4)
    status,     \* "running", "crashed" (uncaught exception), "exited"
    last,       \* the command the prompt loop handled last and how it ended
    steps       \* number of commands the prompt loop has handled

vars == <<ver, objs, players, matches, csv, matchesCsv, status, last, steps>>

----------------------------------------------------------------------------
(* Bounds of the model *)

MaxLoad == 5        \* rows of players.csv at startup
MaxSteps == 3       \* commands in a session

LoadRatings == {1000, 1005, 1200}
LoadNames == <<"n1", "n2", "n3", "n4", "n5", "n6", "n7">>
AddNames == {"n1", "x"}
OutcomeInputs == {0, 1, 2}
ScoreInputs == {"21-19"}
Versions == {1, 3, 4}

----------------------------------------------------------------------------
(* Program constants *)

DefaultElo == 1200
K == 32
Inf == 2147483647
Milli == 1000       \* thousandths of a rating point per rating point
Unit == 10000       \* fixed-point one for expected scores and powers of ten

None == <<>>
Some(x) == <<x>>

Abs(x) == IF x < 0 THEN 0 - x ELSE x
Range(s) == {s[i] : i \in DOMAIN s}

----------------------------------------------------------------------------
(* Rating model: Player.calculate_elo *)

\* 10 ** (2^k / 400) for k = 0..7, in Units
TenRoots == <<10058, 10116, 10233, 10471, 10965, 12023, 14454, 20893>>

RECURSIVE Pow10Bits(_, _, _)
Pow10Bits(r, k, acc) ==
    IF r = 0 THEN acc
    ELSE Pow10Bits(r \div 2, k + 1,
                   IF r % 2 = 1 THEN (acc * TenRoots[k]) \div Unit ELSE acc)

\* 10 ** (r / 400) for 0 <= r < 400, in Units
Pow10Frac(r) ==
    IF r <= 200 THEN Pow10Bits(r, 1, Unit)
    ELSE (10 * Unit * Unit) \div Pow10Bits(400 - r, 1, Unit)

RECURSIVE Pow10Int(_)
Pow10Int(q) == IF q = 0 THEN 1 ELSE 10 * Pow10Int(q - 1)

\* 10 ** (d / 400) for a whole number d of rating points, in Units
\* (beyond 10 ** 4 the expected score is 0 or 1 to the model's precision)
Pow10(d) ==
    IF d >= 0
    THEN IF d >= 1600 THEN Unit * Unit
         ELSE Pow10Frac(d % 400) * Pow10Int(d \div 400)
    ELSE IF d <= -1600 THEN 1
         ELSE (Unit * Unit) \div (Pow10Frac((0 - d) % 400) * Pow10Int((0 - d) \div 400))

\* a difference of ratings, rounded to whole rating points
Points(dm) == IF dm >= 0 THEN (dm + Milli \div 2) \div Milli
              ELSE 0 - ((0 - dm + Milli \div 2) \div Milli)

\* 1 / (1 + 10 ** ((opponent_elo - player_elo) / 400)), in Units
elo_expectation(player_elo, opponent_elo) ==
    (Unit * Unit) \div (Unit + Pow10(Points(opponent_elo - player_elo)))

\* player_elo + K * (actual - expected)
elo_update(player_elo, expected, actual) ==
    player_elo + (K * (actual * Unit - expected) * Milli) \div Unit

\* Player.calculate_elo(opponent, outcome): the player record afterwards
calculate_elo(p, opponent_elo, outcome) ==
    [p EXCEPT !.elo = elo_update(p.elo, elo_expectation(p.elo, opponent_elo), outcome),
              !.elo_float = TRUE,
              !.availability = TRUE]

----------------------------------------------------------------------------
(* Player, Match *)

IdInt(n) == [str |-> FALSE, n |-> n]     \* an int id, Player(len(queue.players), name)
IdStr(n) == [str |-> TRUE, n |-> n]      \* an id read from a CSV cell

Player(id, name, elo) ==
    [id |-> id, name |-> name, elo |-> elo, elo_float |-> FALSE,
     availability |-> TRUE, match_history |-> <<>>]

Match(id, ps, match_type) ==
    [id |-> id, players |-> ps, match_type |-> match_type,
     outcome |-> None, score |-> None]

\* a singles match read from matches.csv: players is the list of the one
\* string of the players cell, [players_str]
LoadedSingles(m) == m.match_type = "singles" /\ Len(m.players) = 1

\* the Player objects a match refers to (a loaded match refers to none)
Participants(m) ==
    IF LoadedSingles(m) THEN {}
    ELSE IF m.match_type = "singles" THEN Range(m.players)
    ELSE Range(m.players[1]) \cup Range(m.players[2])

\* Player.record_match(opponents, outcome), v3
record_match(p, opponent_names, doubles, outcome) ==
    [p EXCEPT !.match_history =
        Append(@, [doubles |-> doubles, opponents |-> opponent_names, outcome |-> outcome])]

----------------------------------------------------------------------------
(* sorted(..., key=lambda p: p.elo), stable; with reverse=True *)

InsertAsc(s, x, O) ==
    LET n == Cardinality({i \in DOMAIN s : O[s[i]].elo <= O[x].elo})
    IN  SubSeq(s, 1, n) \o <<x>> \o SubSeq(s, n + 1, Len(s))

RECURSIVE sorted(_, _)
sorted(s, O) ==
    IF s = <<>> THEN <<>>
    ELSE InsertAsc(sorted(SubSeq(s, 1, Len(s) - 1), O), s[Len(s)], O)

InsertDesc(s, x, O) ==
    LET n == Cardinality({i \in DOMAIN s : O[s[i]].elo >= O[x].elo})
    IN  SubSeq(s, 1, n) \o <<x>> \o SubSeq(s, n + 1, Len(s))

RECURSIVE sorted_reverse(_, _)
sorted_reverse(s, O) ==
    IF s = <<>> THEN <<>>
    ELSE InsertDesc(sorted_reverse(SubSeq(s, 1, Len(s) - 1), O), s[Len(s)], O)

----------------------------------------------------------------------------
(* Queue.players: a deque (v1), a dict keyed by name (v3, v4) *)

\* deque.remove(x) / del dict[key]: drop the first occurrence of object x
Without(s, x) ==
    LET hits == {i \in DOMAIN s : s[i] = x}
    IN  IF hits = {} THEN s
        ELSE LET i == CHOOSE h \in hits : \A g \in hits : h <= g
             IN  SubSeq(s, 1, i - 1) \o SubSeq(s, i + 1, Len(s))

\* the first object of the queue with this name (0: none)
Lookup(ps, O, name) ==
    LET hits == {i \in DOMAIN ps : O[ps[i]].name = name}
    IN  IF hits = {} THEN 0
        ELSE ps[CHOOSE h \in hits : \A g \in hits : h <= g]

\* v1 Queue.add_player: append, then re-sort the deque by elo
add_player_v1(ps, O, x) ==
    IF O[x].availability THEN sorted(Append(ps, x), O) ELSE ps

\* v3/v4 Queue.add_player: self.players[player.name] = player
add_player_v3(ps, O, x) ==
    IF Lookup(ps, O, O[x].name) = 0 THEN Append(ps, x)
    ELSE [i \in DOMAIN ps |-> IF O[ps[i]].name = O[x].name THEN x ELSE ps[i]]

add_player(v, ps, O, x) ==
    IF v = 1 THEN add_player_v1(ps, O, x) ELSE add_player_v3(ps, O, x)

\* a remove_player that forgets to take the player out of the queue
remove_player_kept(ps, x) == ps

\* Queue.remove_player
remove_player(ps, x) == Without(ps, x)

----------------------------------------------------------------------------
(* players.csv *)

\* Queue.save_players_to_csv: one row [id, name, elo] per queued player
save_players_to_csv(ps, O) ==
    [i \in DOMAIN ps |->
        [id |-> O[ps[i]].id, name |-> O[ps[i]].name,
         elo |-> O[ps[i]].elo, elo_float |-> O[ps[i]].elo_float]]

\* Queue.load_players_from_csv: Player(id, name, int(elo)) per row, added in
\* turn.  int() of a float's text raises ValueError: v1 does not catch it,
\* v3/v4 catch it and stop reading.  The result: heap, queue, error.
RECURSIVE load_players_from_csv(_, _, _, _)
load_players_from_csv(v, rows, O, ps) ==
    IF rows = <<>> THEN [objs |-> O, players |-> ps, err |-> "none"]
    ELSE IF rows[1].elo_float THEN [objs |-> O, players |-> ps, err |-> "ValueError"]
    ELSE LET O2 == Append(O, Player(IdStr(rows[1].id.n), rows[1].name, rows[1].elo))
         IN  load_players_from_csv(v, Tail(rows), O2, add_player(v, ps, O2, Len(O2)))

\* Match.to_csv, v4: the names joined by "," within a side and ";" between teams
to_csv(m, O) ==
    [id |-> m.id,
     players_str |->
        IF m.match_type = "singles"
        THEN <<O[m.players[1]].name, ",", O[m.players[2]].name>>
        ELSE <<O[m.players[1][1]].name, ",", O[m.players[1][2]].name, ";",
               O[m.players[2][1]].name, ",", O[m.players[2][2]].name>>,
     match_type |-> m.match_type, outcome |-> m.outcome, score |-> m.score]

\* Queue.save_matches_to_csv, v4: the file is opened for writing and the rows
\* are written in turn.  to_csv of a loaded singles match reads players[1] of
\* a one-element list: the IndexError is caught around the whole loop, so the
\* file keeps the rows written before it.
save_matches_to_csv(ms, O) ==
    LET bad == {i \in DOMAIN ms : LoadedSingles(ms[i])}
        n == IF bad = {} THEN Len(ms)
             ELSE (CHOOSE i \in bad : \A j \in bad : i <= j) - 1
    IN  [i \in 1..n |-> to_csv(ms[i], O)]

\* the text csv.writer puts in a cell: '' for None, str() of an int, a
\* string as it is
IntCellText(cell) == IF cell = None THEN "" ELSE ToString(cell[1])

StrCellText(cell) == IF cell = None THEN "" ELSE cell[1]

\* Queue.load_matches_from_csv, v4: Match(id, players, match_type, outcome,
\* timestamp, score) with the cells as read: the id, the outcome and the score
\* are strings, players is [players_str] for a singles row
load_matches_from_csv(rows) ==
    [i \in DOMAIN rows |->
        [id |-> IdStr(rows[i].id.n), players |-> <<rows[i].players_str>>,
         match_type |-> rows[i].match_type,
         outcome |-> Some(IntCellText(rows[i].outcome)),
         score |-> Some(StrCellText(rows[i].score))]]

----------------------------------------------------------------------------
(* Pairing: Queue.create_match *)

\* v1 singles: for i in range(len(players_sorted)-1): if gap < min_diff: ...
\* The result is the position of p1 in players_sorted (0: none found).
RECURSIVE singles_scan(_, _, _, _, _)
singles_scan(s, O, i, min_diff, best) ==
    IF i > Len(s) - 1 THEN best
    ELSE LET d == Abs(O[s[i]].elo - O[s[i + 1]].elo)
         IN  IF d < min_diff
             THEN singles_scan(s, O, i + 1, d, i)
             ELSE singles_scan(s, O, i + 1, min_diff, best)

\* v1 doubles: the position quadruple the four nested loops visit after q
NextQuad(q, n) ==
    IF q[4] < n THEN <<q[1], q[2], q[3], q[4] + 1>>
    ELSE IF q[3] < n - 1 THEN <<q[1], q[2], q[3] + 1, q[3] + 2>>
    ELSE IF q[2] < n - 2 THEN <<q[1], q[2] + 1, q[2] + 2, q[2] + 3>>
    ELSE IF q[1] < n - 3 THEN <<q[1] + 1, q[1] + 2, q[1] + 3, q[1] + 4>>
    ELSE <<>>

\* diff = abs(sum(team1 elos) - sum(team2 elos)) with team1 = [i, j], team2 = [k, l]
SplitDiff(s, O, q) ==
    Abs((O[s[q[1]]].elo + O[s[q[2]]].elo) - (O[s[q[3]]].elo + O[s[q[4]]].elo))

\* v1 doubles: if diff < min_diff: min_diff = diff; p1..p4 = ...
\* The result is the positions of p1..p4 in players_sorted (<<>>: none found).
RECURSIVE doubles_scan(_, _, _, _, _)
doubles_scan(s, O, q, min_diff, best) ==
    IF q = <<>> THEN best
    ELSE LET diff == SplitDiff(s, O, q)
         IN  IF diff < min_diff
             THEN doubles_scan(s, O, NextQuad(q, Len(s)), diff, q)
             ELSE doubles_scan(s, O, NextQuad(q, Len(s)), min_diff, best)

FirstQuad(n) == IF n >= 4 THEN <<1, 2, 3, 4>> ELSE <<>>

\* v1: team1 = [p1, p2] if p1.elo + p2.elo > p3.elo + p4.elo else [p1, p3]
team1_v1(O, p) ==
    IF O[p[1]].elo + O[p[2]].elo > O[p[3]].elo + O[p[4]].elo
    THEN <<p[1], p[2]>> ELSE <<p[1], p[3]>>

\* a team2 that is the last two of the four whatever team1 is
team2_v1_last_two(p, team1) == {<<p[3], p[4]>>}

\* v1: team2 = list(set([p1, p2, p3, p4]) - set(team1)): the possible orders
team2_v1(p, team1) ==
    LET rest == Range(p) \ Range(team1)
    IN  {t \in [1..2 -> rest] : Range(t) = rest}

\* p.availability = False for each selected player
SetUnavailable(O, sel) ==
    [x \in DOMAIN O |-> IF x \in sel THEN [O[x] EXCEPT !.availability = FALSE] ELSE O[x]]

RECURSIVE RemoveAll(_, _)
RemoveAll(ps, sel) ==
    IF sel = <<>> THEN ps ELSE RemoveAll(remove_player(ps, sel[1]), Tail(sel))

----------------------------------------------------------------------------
(* Outcome recording: prompt_user choice 5, Match.record_outcome *)

\* v1 Match.record_outcome on singles: (id, outcome) appended to both histories
record_outcome_v1(O, m, outcome) ==
    [x \in DOMAIN O |->
        IF x \in Range(m.players)
        THEN [O[x] EXCEPT !.match_history = Append(@, [id |-> m.id, outcome |-> outcome])]
        ELSE O[x]]

\* v3 Match.record_outcome: record_match on every participant
record_outcome_v3(O, m, outcome) ==
    IF m.match_type = "singles"
    THEN LET a == m.players[1]
             b == m.players[2]
             O1 == [O EXCEPT ![a] = record_match(O[a], <<O[b].name>>, FALSE, outcome)]
         IN  [O1 EXCEPT ![b] = record_match(O1[b], <<O1[a].name>>, FALSE, 1 - outcome)]
    ELSE LET t1 == m.players[1]
             t2 == m.players[2]
             n1 == <<O[t1[1]].name, O[t1[2]].name>>
             n2 == <<O[t2[1]].name, O[t2[2]].name>>
             O1 == [O EXCEPT ![t1[1]] = record_match(O[t1[1]], n2, TRUE, outcome)]
             O2 == [O1 EXCEPT ![t1[2]] = record_match(O1[t1[2]], n2, TRUE, outcome)]
             O3 == [O2 EXCEPT ![t2[1]] = record_match(O2[t2[1]], n1, TRUE, 1 - outcome)]
         IN  [O3 EXCEPT ![t2[2]] = record_match(O3[t2[2]], n1, TRUE, 1 - outcome)]

\* a singles update that runs calculate_elo on every player of the session
singles_elo_everyone(O, m, outcome) ==
    [x \in DOMAIN O |->
        calculate_elo(O[x], O[m.players[2]].elo,
                      IF x = m.players[2] THEN 1 - outcome ELSE outcome)]

\* choice 5, singles: players[0].calculate_elo(players[1], outcome), then
\* players[1].calculate_elo(players[0], 1 - outcome)
singles_elo(O, m, outcome) ==
    LET a == m.players[1]
        b == m.players[2]
        O1 == [O EXCEPT ![a] = calculate_elo(O[a], O[b].elo, outcome)]
    IN  [O1 EXCEPT ![b] = calculate_elo(O1[b], O1[a].elo, 1 - outcome)]

\* choice 5, doubles: both team averages first, then every player against the
\* other team's average
doubles_elo(O, m, outcome) ==
    LET t1 == m.players[1]
        t2 == m.players[2]
        team1_avg_elo == (O[t1[1]].elo + O[t1[2]].elo) \div 2
        team2_avg_elo == (O[t2[1]].elo + O[t2[2]].elo) \div 2
        O1 == [O EXCEPT ![t1[1]] = calculate_elo(O[t1[1]], team2_avg_elo, outcome)]
        O2 == [O1 EXCEPT ![t1[2]] = calculate_elo(O1[t1[2]], team2_avg_elo, outcome)]
        O3 == [O2 EXCEPT ![t2[1]] = calculate_elo(O2[t2[1]], team1_avg_elo, 1 - outcome)]
    IN  [O3 EXCEPT ![t2[2]] = calculate_elo(O3[t2[2]], team1_avg_elo, 1 - outcome)]

update_elo(O, m, outcome) ==
    IF m.match_type = "singles" THEN singles_elo(O, m, outcome)
    ELSE doubles_elo(O, m, outcome)

\* a choice 5 that looks the match up and refuses one whose outcome is
\* already recorded
MatchIndex_unresolved(v, n, match_id) ==
    IF match_id >= 0 /\ match_id < n /\ matches[match_id + 1].outcome = None
    THEN match_id + 1
    ELSE 0

\* queue.matches[match_id] in v1: Python indexing, negative ids count from the
\* end.  v3/v4 test match_id in range(len(queue.matches)) first.
\* The result is the ledger position (1-based), 0 when the id is refused.
MatchIndex(v, n, match_id) ==
    IF v = 1
    THEN IF match_id >= 0 /\ match_id < n THEN match_id + 1
         ELSE IF match_id < 0 /\ match_id >= 0 - n THEN n + match_id + 1
         ELSE 0
    ELSE IF match_id >= 0 /\ match_id < n THEN match_id + 1 ELSE 0

----------------------------------------------------------------------------
(* The session: startup, then prompt_user, one action per menu choice *)

Done(op, name, id, m, o, err) ==
    [op |-> op, name |-> name, id |-> id, m |-> m, o |-> o, err |-> err]

\* a players.csv as a session finds it: ids, distinct names, integer ratings,
\* the rows in ascending order of rating (the order v1 saves them in)
CsvFiles ==
    UNION {{f \in [1..n -> LoadRatings] : \A i \in 1..(n - 1) : f[i] <= f[i + 1]} :
              n \in 0..MaxLoad}

CsvRows(f) ==
    [i \in DOMAIN f |->
        [id |-> IdStr(i - 1), name |-> LoadNames[i], elo |-> f[i] * Milli, elo_float |-> FALSE]]

\* a matches.csv as a v4 session finds it: none, or the one row an earlier
\* session wrote for a scored singles match (doubles rows are left out)
MatchFiles ==
    {<<>>,
     <<[id |-> IdInt(0), players_str |-> <<LoadNames[7], ",", LoadNames[6]>>,
        match_type |-> "singles", outcome |-> None, score |-> Some("21-19")]>>}

\* queue = Queue(); queue.load_players_from_csv('players.csv');
\* v4: queue.load_matches_from_csv('matches.csv'); prompt_user(queue)
\* (v1 does not catch a ValueError of the load)
Init ==
    \E v \in Versions, f \in CsvFiles, mf \in MatchFiles :
        LET loaded == load_players_from_csv(v, CsvRows(f), <<>>, <<>>)
        IN  /\ ver = v
            /\ v # 4 => mf = <<>>
            /\ objs = loaded.objs
            /\ players = loaded.players
            /\ matches = load_matches_from_csv(mf)
            /\ csv = CsvRows(f)
            /\ matchesCsv = mf
            /\ status = IF v = 1 /\ loaded.err # "none" THEN "crashed" ELSE "running"
            /\ last = Done("start", "", 0, 0, 0, loaded.err)
            /\ steps = 0

\* the prompt loop reads one more command
Prompt ==
    /\ status = "running"
    /\ steps < MaxSteps
    /\ steps' = steps + 1

\* choice 1: Player(len(queue.players), name); queue.add_player; v3/v4 save
AddPlayer(name) ==
    /\ Prompt
    /\ LET O == Append(objs, Player(IdInt(Len(players)), name, DefaultElo * Milli))
           ps == add_player(ver, players, O, Len(O))
       IN  /\ objs' = O
           /\ players' = ps
           /\ csv' = IF ver = 1 THEN csv ELSE save_players_to_csv(ps, O)
    /\ last' = Done("add_player", name, 0, 0, 0, "none")
    /\ UNCHANGED <<ver, matches, matchesCsv, status>>

\* choice 2: look the name up; remove it or print "Player not found."
RemovePlayer(name) ==
    /\ Prompt
    /\ LET x == Lookup(players, objs, name)
       IN  IF x = 0
           THEN /\ last' = Done("remove_player", name, 0, 0, 0, "NotFound")
                /\ UNCHANGED <<players, csv>>
           ELSE /\ players' = remove_player(players, x)
                /\ csv' = IF ver = 1 THEN csv
                          ELSE save_players_to_csv(remove_player(players, x), objs)
                /\ last' = Done("remove_player", name, 0, 0, 0, "none")
    /\ UNCHANGED <<ver, objs, matches, matchesCsv, status>>

\* what Queue.create_match(match_type) does:
\* [err, status, sel (the selected players, in removal order), players (the
\*  match's players field)]
create_match_v1(match_type) ==
    IF Len(players) < 2
    THEN {[err |-> "NotEnoughPlayers", crash |-> FALSE, sel |-> <<>>, players |-> <<>>]}
    ELSE LET players_sorted == sorted(players, objs)
         IN  IF match_type = "singles"
             THEN LET i == singles_scan(players_sorted, objs, 1, Inf, 0)
                      p1 == players_sorted[i]
                      p2 == players_sorted[i + 1]
                  IN  {[err |-> "none", crash |-> FALSE,
                        sel |-> <<p1, p2>>, players |-> <<p1, p2>>]}
             ELSE LET q == doubles_scan(players_sorted, objs,
                                        FirstQuad(Len(players_sorted)), Inf, <<>>)
                  IN  IF q = <<>>
                      THEN \* p1 is None: p1.availability = ... raises AttributeError
                           {[err |-> "AttributeError", crash |-> TRUE,
                             sel |-> <<>>, players |-> <<>>]}
                      ELSE LET p == [n \in 1..4 |-> players_sorted[q[n]]]
                               team1 == team1_v1(objs, p)
                           IN  {[err |-> "none", crash |-> FALSE, sel |-> p,
                                 players |-> <<team1, team2>>] :
                                    team2 \in team2_v1(p, team1)}

create_match_v3(match_type) ==
    IF Len(players) < 2
    THEN {[err |-> "NotEnoughPlayers", crash |-> FALSE, sel |-> <<>>, players |-> <<>>]}
    ELSE LET players_sorted == sorted_reverse(players, objs)
         IN  IF match_type = "singles"
             THEN {[err |-> "none", crash |-> FALSE,
                    sel |-> SubSeq(players_sorted, 1, 2),
                    players |-> SubSeq(players_sorted, 1, 2)]}
             ELSE IF Len(players) < 4
                  THEN {[err |-> "NotEnoughPlayers", crash |-> FALSE,
                         sel |-> <<>>, players |-> <<>>]}
                  ELSE {[err |-> "none", crash |-> FALSE,
                         sel |-> SubSeq(players_sorted, 1, 4),
                         players |-> <<SubSeq(players_sorted, 1, 2),
                                       SubSeq(players_sorted, 3, 4)>>]}

\* v1 marks the selected players unavailable; v3/v4 do not touch the flag
MarkSelected(O, sel) == IF ver = 1 THEN SetUnavailable(O, Range(sel)) ELSE O

\* choices 3 and 4
CreateMatch(op, match_type) ==
    /\ Prompt
    /\ \E r \in (IF ver = 1 THEN create_match_v1(match_type)
                 ELSE create_match_v3(match_type)) :
        IF r.err # "none"
        THEN /\ status' = IF r.crash THEN "crashed" ELSE status
             /\ last' = Done(op, "", 0, 0, 0, r.err)
             /\ UNCHANGED <<objs, players, matches>>
        ELSE /\ objs' = MarkSelected(objs, r.sel)
             /\ players' = RemoveAll(players, r.sel)
             /\ matches' = Append(matches, Match(IdInt(Len(matches)), r.players, match_type))
             /\ last' = Done(op, "", Len(matches), Len(matches) + 1, 0, "none")
             /\ UNCHANGED status
    /\ UNCHANGED <<ver, csv, matchesCsv>>

CreateSingles == CreateMatch("create_singles_match", "singles")

CreateDoubles == CreateMatch("create_doubles_match", "doubles")

\* choice 5 in v1: no check of the id, Match.record_outcome, then the ratings
RecordOutcomeV1(match_id, outcome) ==
    /\ ver = 1
    /\ Prompt
    /\ LET i == MatchIndex(1, Len(matches), match_id)
       IN  IF i = 0
           THEN \* queue.matches[match_id] raises IndexError
                /\ status' = "crashed"
                /\ last' = Done("record_outcome", "", match_id, 0, outcome, "IndexError")
                /\ UNCHANGED <<objs, matches>>
           ELSE LET m == [matches[i] EXCEPT !.outcome = Some(outcome)]
                IN  /\ matches' = [matches EXCEPT ![i] = m]
                    /\ IF m.match_type = "singles"
                       THEN /\ objs' = singles_elo(record_outcome_v1(objs, m, outcome),
                                                   m, outcome)
                            /\ last' = Done("record_outcome", "", match_id, i, outcome, "none")
                            /\ UNCHANGED status
                       ELSE \* for player in self.players: player is a list, and
                            \* player.match_history raises AttributeError
                            /\ status' = "crashed"
                            /\ last' = Done("record_outcome", "", match_id, i, outcome,
                                            "AttributeError")
                            /\ UNCHANGED objs
    /\ UNCHANGED <<ver, players, csv, matchesCsv>>

\* choice 5 in v3: the id is checked, Match.record_outcome, then the ratings
RecordOutcomeV3(match_id, outcome) ==
    /\ ver = 3
    /\ Prompt
    /\ LET i == MatchIndex(3, Len(matches), match_id)
       IN  IF i = 0
           THEN /\ last' = Done("record_outcome", "", match_id, 0, outcome, "InvalidMatchId")
                /\ UNCHANGED <<objs, matches>>
           ELSE LET m == [matches[i] EXCEPT !.outcome = Some(outcome)]
                IN  /\ matches' = [matches EXCEPT ![i] = m]
                    /\ objs' = update_elo(record_outcome_v3(objs, m, outcome), m, outcome)
                    /\ last' = Done("record_outcome", "", match_id, i, outcome, "none")
    /\ UNCHANGED <<ver, players, csv, status, matchesCsv>>

\* choice 5 in v4: the call of match.record_outcome is commented out; the
\* ratings are updated, the score is asked for and stored, matches.csv is saved
RecordOutcomeV4(match_id, outcome, score) ==
    /\ ver = 4
    /\ Prompt
    /\ LET i == MatchIndex(4, Len(matches), match_id)
       IN  IF i = 0
           THEN /\ last' = Done("record_outcome", "", match_id, 0, outcome, "InvalidMatchId")
                /\ UNCHANGED <<objs, matches, matchesCsv, status>>
           ELSE IF LoadedSingles(matches[i])
           THEN \* match.players[0] is a string: .calculate_elo raises
                \* AttributeError, which the except ValueError lets through
                /\ status' = "crashed"
                /\ last' = Done("record_outcome", "", match_id, i, outcome, "AttributeError")
                /\ UNCHANGED <<objs, matches, matchesCsv>>
           ELSE LET m == matches[i]
                    O == update_elo(objs, m, outcome)
                    ms == [matches EXCEPT ![i].score = Some(score)]
                IN  /\ objs' = O
                    /\ matches' = ms
                    /\ matchesCsv' = save_matches_to_csv(ms, O)
                    /\ last' = Done("record_outcome", "", match_id, i, outcome, "none")
                    /\ UNCHANGED status
    /\ UNCHANGED <<ver, players, csv>>

\* choice 6: the player's rating and history are printed, or "Player not found."
GetPlayerStats(name) ==
    /\ Prompt
    /\ last' = Done("get_player_stats", name, 0, 0, 0,
                    IF Lookup(players, objs, name) = 0 THEN "NotFound" ELSE "none")
    /\ UNCHANGED <<ver, objs, players, matches, csv, matchesCsv, status>>

\* choice 7: the match's players and outcome are printed; v1 indexes the list
\* with the id as typed, v3/v4 check the id first
GetMatchStats(match_id) ==
    /\ Prompt
    /\ LET i == MatchIndex(ver, Len(matches), match_id)
       IN  IF i = 0
           THEN /\ status' = IF ver = 1 THEN "crashed" ELSE status
                /\ last' = Done("get_match_stats", "", match_id, 0, 0,
                                IF ver = 1 THEN "IndexError" ELSE "InvalidMatchId")
           ELSE /\ last' = Done("get_match_stats", "", match_id, i, 0, "none")
                /\ UNCHANGED status
    /\ UNCHANGED <<ver, objs, players, matches, csv, matchesCsv>>

\* choice 8, and the saves after prompt_user returns
Exit ==
    /\ Prompt
    /\ status' = "exited"
    /\ csv' = save_players_to_csv(players, objs)
    /\ matchesCsv' = IF ver = 4 THEN save_matches_to_csv(matches, objs) ELSE matchesCsv
    /\ last' = Done("exit", "", 0, 0, 0, "none")
    /\ UNCHANGED <<ver, objs, players, matches>>

MatchIdInputs == -1..Len(matches)

Next ==
    \/ \E name \in AddNames : AddPlayer(name)
    \/ \E name \in AddNames : RemovePlayer(name)
    \/ CreateSingles
    \/ CreateDoubles
    \/ \E match_id \in MatchIdInputs, outcome \in OutcomeInputs :
           RecordOutcomeV1(match_id, outcome)
    \/ \E match_id \in MatchIdInputs, outcome \in OutcomeInputs :
           RecordOutcomeV3(match_id, outcome)
    \/ \E match_id \in MatchIdInputs, outcome \in OutcomeInputs, score \in ScoreInputs :
           RecordOutcomeV4(match_id, outcome, score)
    \/ \E name \in AddNames : GetPlayerStats(name)
    \/ \E match_id \in MatchIdInputs : GetMatchStats(match_id)
    \/ Exit

Spec == Init /\ [][Next]_vars

----------------------------------------------------------------------------
(* Vocabulary of the properties *)

Unresolved(i) == matches[i].outcome = None

\* the unresolved matches a player takes part in
Engagements(x) == {i \in DOMAIN matches : Unresolved(i) /\ x \in Participants(matches[i])}

Created == last.op \in {"create_singles_match", "create_doubles_match"} /\ last.err = "none"
Recorded == last.op = "record_outcome" /\ last.err = "none"

IsAvailable(x) == objs[x].availability

\* the pool a pairing call draws from: the queued players that are available
Pool == SelectSeq(players, IsAvailable)

QueuedNames == {objs[x].name : x \in Range(players)}

TeamSum(O, t) == O[t[1]].elo + O[t[2]].elo

Quads(n) == {q \in [1..4 -> 1..n] : q[1] < q[2] /\ q[2] < q[3] /\ q[3] < q[4]}

\* q comes before r in the order of the nested loops (i outermost, l innermost)
LoopBefore(q, r) ==
    \E n \in 1..4 : q[n] < r[n] /\ \A h \in 1..(n - 1) : q[h] = r[h]

----------------------------------------------------------------------------
(* C1 *)

\* C1: in every reachable state each player takes part in at most one match
\* whose outcome is absent; two pairing calls with no outcome recorded in
\* between never select the same player twice.
C1_AtMostOneUnresolvedMatch ==
    \A x \in DOMAIN objs : Cardinality(Engagements(x)) <= 1

\* two matches created one after the other, both still without an outcome
C1_Witness ==
    /\ Created
    /\ \E i, j \in DOMAIN matches : i # j /\ Unresolved(i) /\ Unresolved(j)
    /\ \E x \in DOMAIN objs : Engagements(x) # {}

----------------------------------------------------------------------------
(* C2 *)

\* C2: a player's available flag is true if and only if the player is not a
\* participant of any match whose outcome is absent.
C2_AvailableIffNotEngaged ==
    \A x \in DOMAIN objs : objs[x].availability <=> (Engagements(x) = {})

----------------------------------------------------------------------------
(* C3 *)

\* C3: a player selected into a match is unavailable right after the
\* selection; right after the match's outcome is recorded the player is
\* available and again among the candidates of the next pairing call.
C3_UnavailableThenRequeued ==
    /\ Created => \A x \in Participants(matches[last.m]) : ~objs[x].availability
    /\ Recorded => \A x \in Participants(matches[last.m]) :
                        objs[x].availability /\ x \in Range(Pool)

----------------------------------------------------------------------------
(* C4 *)

\* C4: a player leaves the registry only through remove_player: a step of
\* any other command keeps every registered name registered.
C4_OnlyRemoveDeletes ==
    [][last'.op # "remove_player" =>
          \A x \in Range(players) : objs[x].name \in {objs'[y].name : y \in Range(players')}]_vars

----------------------------------------------------------------------------
(* C5 *)

\* C5: on a pool of at least 2 players create_singles_match selects the
\* adjacent pair of the ascending-by-rating order with the smallest gap, the
\* first such pair of the ascending scan, returns it lower-rated first, and
\* leaves every other player in the pool.
C5_SinglesPicksClosestAdjacentPair ==
    [][(last'.op = "create_singles_match" /\ Len(Pool) >= 2) =>
          LET s == sorted(Pool, objs)
              gap(i) == Abs(objs[s[i + 1]].elo - objs[s[i]].elo)
          IN  /\ last'.err = "none"
              /\ \E i \in 1..(Len(s) - 1) :
                    /\ \A j \in 1..(Len(s) - 1) : gap(i) <= gap(j)
                    /\ \A j \in 1..(i - 1) : gap(j) > gap(i)
                    /\ matches'[Len(matches')].players = <<s[i], s[i + 1]>>
                    /\ Range(players') = Range(players) \ {s[i], s[i + 1]}]_vars

----------------------------------------------------------------------------
(* C6 *)

\* C6: on a pool of at least 4 players the four players create_doubles_match
\* selects are the sorted-pool positions i<j<k<l that minimise
\* |rating[i]+rating[j] - (rating[k]+rating[l])|, the first such quadruple
\* in the order of the nested ascending loops.
C6_DoublesPicksMinimalQuad ==
    [][(last'.op = "create_doubles_match" /\ Len(Pool) >= 4) =>
          LET s == sorted(Pool, objs)
          IN  /\ last'.err = "none"
              /\ \E q \in Quads(Len(s)) :
                    /\ \A r \in Quads(Len(s)) :
                          \/ SplitDiff(s, objs, q) < SplitDiff(s, objs, r)
                          \/ SplitDiff(s, objs, q) = SplitDiff(s, objs, r)
                             /\ (q = r \/ LoopBefore(q, r))
                    /\ Participants(matches'[Len(matches')]) = {s[q[n]] : n \in 1..4}]_vars

----------------------------------------------------------------------------
(* C7 *)

\* C7: the doubles match v1's create_doubles_match stores is balanced as
\* searched: the absolute difference of the rating sums of its two teams is
\* the minimum split difference the search found.
C7_StoredTeamsBalancedAsSearched ==
    [][(ver = 1 /\ last'.op = "create_doubles_match" /\ last'.err = "none") =>
          LET s == sorted(Pool, objs)
              m == matches'[Len(matches')]
              stored == Abs(TeamSum(objs, m.players[1]) - TeamSum(objs, m.players[2]))
          IN  /\ \A q \in Quads(Len(s)) : stored <= SplitDiff(s, objs, q)
              /\ \E q \in Quads(Len(s)) : stored = SplitDiff(s, objs, q)]_vars

----------------------------------------------------------------------------
(* C8 *)

\* C8: recording outcome o (0 or 1) on a singles match updates both players
\* with expected scores computed from the ratings both had before, so the two
\* rating changes sum to zero (here: to within 0.01 rating point, the
\* resolution of the fixed-point expected scores); with both players at 1200
\* and o = 1, A gains exactly 16 and B loses exactly 16.
C8_SinglesUpdateConservesRating ==
    [][(last'.op = "record_outcome" /\ last'.err = "none" /\ last'.o \in {0, 1}
            /\ matches[last'.m].match_type = "singles") =>
          LET a == matches[last'.m].players[1]
              b == matches[last'.m].players[2]
              da == objs'[a].elo - objs[a].elo
              db == objs'[b].elo - objs[b].elo
          IN  /\ Abs(da + db) <= 10
              /\ objs'[b].elo = elo_update(objs[b].elo,
                                           elo_expectation(objs[b].elo, objs[a].elo),
                                           1 - last'.o)
              /\ (objs[a].elo = 1200 * Milli /\ objs[b].elo = 1200 * Milli /\ last'.o = 1)
                    => (da = 16 * Milli /\ db = 0 - 16 * Milli)]_vars

----------------------------------------------------------------------------
(* C9 *)

\* C9: after record_outcome(match_id, o) is accepted for an existing match,
\* that match's outcome equals o and every other match's outcome is unchanged.
C9_OutcomeStored ==
    [][(last'.op = "record_outcome" /\ last'.err = "none") =>
          /\ Len(matches') = Len(matches)
          /\ matches'[last'.m].outcome = Some(last'.o)
          /\ \A i \in DOMAIN matches :
                i # last'.m => matches'[i].outcome = matches[i].outcome]_vars

----------------------------------------------------------------------------
(* C10 *)

\* C10: no command partially mutates state and then fails: a command that
\* fails leaves players, availability, ratings, histories and ledger exactly
\* as before.
C10_FailureChangesNothing ==
    [][last'.err # "none" =>
          (objs' = objs /\ players' = players /\ matches' = matches)]_vars

----------------------------------------------------------------------------
(* C11 *)

\* C11: create_singles_match on a pool of fewer than 2 players and
\* create_doubles_match on a pool of fewer than 4 (2 and 3 included) are
\* rejected with the not-enough-players failure: the session goes on, no
\* match is appended, and no player's availability, rating or registry
\* membership changes.
C11_TooFewPlayersRejected ==
    [][((last'.op = "create_singles_match" /\ Len(Pool) < 2)
            \/ (last'.op = "create_doubles_match" /\ Len(Pool) < 4)) =>
          /\ last'.err = "NotEnoughPlayers"
          /\ status' = status
          /\ matches' = matches
          /\ objs' = objs
          /\ players' = players]_vars

----------------------------------------------------------------------------
(* C12 *)

\* C12: record_outcome on an existing match with an outcome other than 0 or 1
\* is rejected, and changes neither the ledger nor any player's rating,
\* availability or history.
C12_OnlyZeroOrOneAccepted ==
    [][(last'.op = "record_outcome" /\ last'.o \notin {0, 1}
            /\ last'.id \in 0..(Len(matches) - 1)) =>
          /\ last'.err # "none"
          /\ matches' = matches
          /\ objs' = objs]_vars

----------------------------------------------------------------------------
(* C13 *)

\* C13: a command addressed by match id (record_outcome, with v4's
\* record_score inside it, and get_match_stats) whose id is outside
\* 0..len(ledger)-1, negative ids included, is refused as an unknown match:
\* the session goes on and no match and no player is changed.
C13_UnknownMatchIdRefused ==
    [][(last'.op \in {"record_outcome", "get_match_stats"}
            /\ last'.id \notin 0..(Len(matches) - 1)) =>
          /\ last'.err = "InvalidMatchId"
          /\ status' = status
          /\ matches' = matches
          /\ objs' = objs
          /\ players' = players]_vars

----------------------------------------------------------------------------
(* C14 *)

\* C14: add_player with a name that is already registered is refused and
\* leaves the existing record as it was: the name still belongs to the same
\* player, with the same id, rating, availability and history, and the number
\* of registered players is unchanged.
C14_DuplicateNameRefused ==
    [][(last'.op = "add_player" /\ last'.name \in QueuedNames) =>
          /\ last'.err # "none"
          /\ Len(players') = Len(players)
          /\ Lookup(players', objs', last'.name) = Lookup(players, objs, last'.name)
          /\ \A x \in Range(players) : x \in Range(players') /\ objs'[x] = objs[x]]_vars

----------------------------------------------------------------------------
(* C15 *)

\* C15: the ledger is append-only and addressed by index: the match at
\* (0-based) position n has id n; a newly created match gets the ledger length
\* before the append as its id and has neither outcome nor score; no command
\* removes, reorders or renumbers a match or changes its type or participants.
C15_LedgerAppendOnlyIdIsIndex ==
    [][/\ \A i \in DOMAIN matches : matches[i].id = IdInt(i - 1)
       /\ \A i \in DOMAIN matches' : matches'[i].id = IdInt(i - 1)
       /\ Len(matches') >= Len(matches)
       /\ \A i \in DOMAIN matches :
             /\ matches'[i].id = matches[i].id
             /\ matches'[i].match_type = matches[i].match_type
             /\ matches'[i].players = matches[i].players
       /\ \A i \in DOMAIN matches' \ DOMAIN matches :
             /\ i = Len(matches) + 1
             /\ matches'[i].outcome = None
             /\ matches'[i].score = None]_vars

----------------------------------------------------------------------------
(* C16 *)

\* the (id, name, rating) triplets of a registry
Triplets(ps, O) == {<<O[x].id, O[x].name, O[x].elo>> : x \in Range(ps)}

\* C16: in every reachable state, saving the registry and loading the rows
\* into an empty registry goes through without error and gives the same set
\* of (id, name, rating) triplets.
C16_SaveLoadRoundTrip ==
    LET reloaded == load_players_from_csv(ver, save_players_to_csv(players, objs), <<>>, <<>>)
    IN  /\ reloaded.err = "none"
        /\ Triplets(reloaded.players, reloaded.objs) = Triplets(players, objs)

----------------------------------------------------------------------------
(* C17 *)

\* C17: the two teams of a doubles match v1 creates are the two pairs of the
\* evaluated split of the chosen sorted positions i<j<k<l, {i,j} and {k,l}:
\* the pair with the strictly greater rating sum is team1 and the other pair
\* is team2; with equal sums team1 is {i,j}.
C17_TeamsAreTheEvaluatedSplit ==
    [][(ver = 1 /\ last'.op = "create_doubles_match" /\ last'.err = "none") =>
          LET s == sorted(Pool, objs)
              m == matches'[Len(matches')]
          IN  \E q \in Quads(Len(s)) :
                LET ij == {s[q[1]], s[q[2]]}
                    kl == {s[q[3]], s[q[4]]}
                    sum_ij == objs[s[q[1]]].elo + objs[s[q[2]]].elo
                    sum_kl == objs[s[q[3]]].elo + objs[s[q[4]]].elo
                IN  /\ Participants(m) = ij \cup kl
                    /\ Range(m.players[1]) = (IF sum_kl > sum_ij THEN kl ELSE ij)
                    /\ Range(m.players[2]) = (IF sum_kl > sum_ij THEN ij ELSE kl)]_vars

----------------------------------------------------------------------------
(* C18 *)

\* C18: recording outcome o on a doubles match of the ledger updates each of
\* the four players against the other team's average rating as it was before
\* any of the four updates, team1's members with actual o and team2's with
\* actual 1 - o.
C18_DoublesUpdateUsesPriorAverages ==
    [][(last'.op = "record_outcome" /\ last'.id \in 0..(Len(matches) - 1)
            /\ matches[last'.id + 1].match_type = "doubles") =>
          LET t1 == matches[last'.id + 1].players[1]
              t2 == matches[last'.id + 1].players[2]
              avg1 == (objs[t1[1]].elo + objs[t1[2]].elo) \div 2
              avg2 == (objs[t2[1]].elo + objs[t2[2]].elo) \div 2
              updated(x, opp, actual) ==
                  objs'[x].elo = elo_update(objs[x].elo, elo_expectation(objs[x].elo, opp), actual)
          IN  \A n \in 1..2 : /\ updated(t1[n], avg2, last'.o)
                              /\ updated(t2[n], avg1, 1 - last'.o)]_vars

----------------------------------------------------------------------------
(* C19 *)

\* a match whose outcome a recording has stored
Resolved(i) == matches[i].outcome # None /\ ~LoadedSingles(matches[i])

\* C19: record_outcome on a match that is already Resolved is accepted: the
\* stored outcome is overwritten with the new one and every participant's
\* rating is updated once more from its current value; the call is neither
\* rejected nor a no-op.
C19_RerecordingAppliesAgain ==
    [][(last'.op = "record_outcome" /\ last'.id \in 0..(Len(matches) - 1)
            /\ Resolved(last'.id + 1)) =>
          LET m == matches[last'.id + 1]
          IN  /\ last'.err = "none"
              /\ matches'[last'.id + 1].outcome = Some(last'.o)
              /\ \A x \in Participants(m) :
                    /\ objs'[x].elo = update_elo(objs, m, last'.o)[x].elo
                    /\ objs'[x].elo # objs[x].elo]_vars

\* an outcome has just been recorded on a match that had one already
C19_Witness ==
    /\ Recorded
    /\ Resolved(last.m)
    /\ \A x \in Participants(matches[last.m]) : Len(objs[x].match_history) = 2

----------------------------------------------------------------------------
(* C20 *)

\* C20: every match goes from Created to Resolved to Scored in that order: in
\* every state a command leaves behind, a match whose score is set also has
\* its outcome set, and an outcome that was set is still set.
C20_OutcomeBeforeScore ==
    [][/\ \A i \in DOMAIN matches' :
             matches'[i].score # None => matches'[i].outcome # None
       /\ \A i \in DOMAIN matches :
             matches[i].outcome # None => matches'[i].outcome # None]_vars

----------------------------------------------------------------------------
(* C21 *)

\* the history entries the claim allows player x to get for outcome o on
\* match m: the opponent's name (singles) or the two names of the other team
\* (doubles), with x's own result
HistoryEntries(O, m, x, o) ==
    IF m.match_type = "singles"
    THEN LET opp == IF x = m.players[1] THEN m.players[2] ELSE m.players[1]
         IN  {[doubles |-> FALSE, opponents |-> <<O[opp].name>>,
               outcome |-> IF x = m.players[1] THEN o ELSE 1 - o]}
    ELSE LET first == x \in Range(m.players[1])
             opp == IF first THEN m.players[2] ELSE m.players[1]
         IN  {[doubles |-> TRUE, opponents |-> names,
               outcome |-> IF first THEN o ELSE 1 - o] :
                 names \in {<<O[opp[1]].name, O[opp[2]].name>>,
                            <<O[opp[2]].name, O[opp[1]].name>>}}

\* C21: an accepted record_outcome(match, o) appends exactly one entry to the
\* history of every participant of the match and none to any other player;
\* the entry names the opponent (singles) or the two players of the other
\* team (doubles) and carries the player's own result, o for the first
\* participant or team and 1 - o for the second; no step changes or removes
\* an existing entry.
C21_HistoryGrowsByOneEntryPerParticipant ==
    [][/\ \A x \in DOMAIN objs :
             /\ Len(objs'[x].match_history) >= Len(objs[x].match_history)
             /\ SubSeq(objs'[x].match_history, 1, Len(objs[x].match_history))
                    = objs[x].match_history
       /\ (last'.op = "record_outcome" /\ last'.err = "none") =>
             LET m == matches[last'.m]
             IN  \A x \in DOMAIN objs :
                    IF x \in Participants(m)
                    THEN /\ Len(objs'[x].match_history) = Len(objs[x].match_history) + 1
                         /\ objs'[x].match_history[Len(objs'[x].match_history)]
                                \in HistoryEntries(objs, m, x, last'.o)
                    ELSE objs'[x].match_history = objs[x].match_history]_vars

----------------------------------------------------------------------------
(* C22 *)

\* C22: a player's rating changes only in a record_outcome step on a match
\* the player takes part in: add_player, remove_player, the two pairing
\* commands, the views and exit leave every rating as it is, and
\* record_outcome (with v4's record_score) leaves the ratings of the players
\* outside the match as they are.
C22_RatingChangesOnlyByOwnOutcome ==
    [][/\ \A x \in DOMAIN objs :
             objs'[x].elo # objs[x].elo =>
                 /\ last'.op = "record_outcome"
                 /\ last'.m \in DOMAIN matches
                 /\ x \in Participants(matches[last'.m])
       /\ last'.op # "record_outcome" =>
             \A x \in DOMAIN objs : objs'[x].elo = objs[x].elo]_vars

\* an outcome has just been recorded and changed the ratings of the match's
\* players, while the session has other players whose ratings are as loaded
C22_Witness ==
    /\ Recorded
    /\ \A x \in Participants(matches[last.m]) : objs[x].elo_float
    /\ \E y \in DOMAIN objs \ Participants(matches[last.m]) : ~objs[y].elo_float

----------------------------------------------------------------------------
(* C23 *)

\* the players that exist in the session: registered, or referenced by a match
Existing == Range(players) \cup UNION {Participants(matches[i]) : i \in DOMAIN matches}

\* C23: player ids identify players: in every reachable state no two distinct
\* players that exist in the session, in the registry or in a match, have
\* the same id.
C23_PlayerIdsUnique ==
    \A x, y \in Existing : x # y => objs[x].id # objs[y].id

----------------------------------------------------------------------------
(* C24 *)

\* a singles match of 2 distinct players; a doubles match of two disjoint
\* teams of 2 distinct players each
WellFormed(m) ==
    IF m.match_type = "singles"
    THEN Len(m.players) = 2 /\ m.players[1] # m.players[2]
    ELSE /\ Len(m.players) = 2
         /\ \A t \in 1..2 : Len(m.players[t]) = 2 /\ m.players[t][1] # m.players[t][2]
         /\ Range(m.players[1]) \cap Range(m.players[2]) = {}

====
